---- MODULE Spec2Model ----
(***************************************************************************)
(* Decoding of generation-6 creature records (pkm-rs, src/pkm/pk6.rs):     *)
(* Pk6::new decrypts and unshuffles a 232-byte Raw Record into the         *)
(* Canonical Buffer, and the Pkx accessors read typed fields from it.      *)
(*                                                                         *)
(* Bytes are integers 0..255 and a byte buffer is a sequence of them; the  *)
(* byte at offset o of a buffer d is d[o + 1].  A u32 is held as its two   *)
(* 16-bit halves [hi, lo], because the u32 range exceeds the integers the  *)
(* model checker computes with; all arithmetic on it is modulo 2^32.       *)
(***************************************************************************)
EXTENDS Integers, Sequences, FiniteSets, TLC

(***************************************************************************)
(* Bounds of the model.                                                    *)
(***************************************************************************)
\* seeds tried per block-permutation selector (the other seed bits vary)
MaxSeedVar == 2
\* body fill patterns tried per seed
MaxPattern == 2

(***************************************************************************)
(* State.  Each caller holds one record and decodes it into one entity.    *)
(***************************************************************************)
VARIABLES
  inp,    \* per caller: the description of the record it was given
  raw,    \* per caller: the Raw Record
  new_seed, \* per caller: the seed local of Pk6::new
  pk,     \* per caller: the Decoded Entity (struct Pk6)
  st,     \* per caller: "raw", "seeded", "decoded", "panicked", "hp_panicked"
  ret,    \* per caller: the last accessor call and what it returned
  watch,  \* the accessor whose first returned value is remembered
  first   \* per caller: the first call of the watched accessor

(***************************************************************************)
(* Sizes.                                                                  *)
(***************************************************************************)
STORED_SIZE == 232
BLOCK_SIZE == 56
\* seed (4 bytes) + sanity/checksum (4 bytes), never encrypted
HEADER_SIZE == 8
BLOCK_COUNT == 4

(***************************************************************************)
(* Bit operations on naturals.                                             *)
(***************************************************************************)
RECURSIVE BitXor(_, _)
BitXor(a, b) ==
  IF a = 0 THEN b
  ELSE IF b = 0 THEN a
  ELSE ((a + b) % 2) + 2 * BitXor(a \div 2, b \div 2)

\* bit k (0 = lowest) of n
Bit(n, k) == (n \div (2 ^ k)) % 2

U32(hi, lo) == [hi |-> hi, lo |-> lo]

At(d, o) == d[o + 1]

\* u32::from_le_bytes on a 4-byte array
from_le_bytes(b) == U32(b[3] + 256 * b[4], b[1] + 256 * b[2])

\* <[u8; 4]>::try_from(slice): Ok only for a slice of exactly 4 bytes
try_into_4(s) == IF Len(s) = 4 THEN [ok |-> TRUE, val |-> s]
                 ELSE [ok |-> FALSE, val |-> <<>>]

(***************************************************************************)
(* Keystream Generator: state' = state * 0x41C64E6D + 0x6073 (mod 2^32),   *)
(* the output word is the high 16 bits of state'.                          *)
(***************************************************************************)
\* 0x41C6
LCRNG_MULT_HI == 16838
\* 0x4E6D
LCRNG_MULT_LO == 20077
\* 0x6073
LCRNG_ADD == 24691

next(state) ==
  LET t == state.lo * LCRNG_MULT_LO + LCRNG_ADD
  IN U32(((t \div 65536) + ((state.hi * LCRNG_MULT_LO) % 65536)
                         + ((state.lo * LCRNG_MULT_HI) % 65536)) % 65536,
         t % 65536)

(***************************************************************************)
(* Decryption Engine.                                                      *)
(***************************************************************************)
\* the n keystream states that follow state, in order
RECURSIVE key_states(_, _)
key_states(state, n) ==
  IF n = 0 THEN <<>>
  ELSE IF n = 1 THEN <<next(state)>>
  ELSE LET h == n \div 2
           a == key_states(state, h)
       IN a \o key_states(a[h], n - h)

\* XOR every 16-bit little-endian word of the body with the next keystream
\* word (the high half of the next state), in buffer order; the header and
\* anything after the last block are copied.
crypt(data, seed) ==
  LET ks == key_states(seed, (BLOCK_COUNT * BLOCK_SIZE) \div 2)
  IN [i \in 1..Len(data) |->
        IF i <= HEADER_SIZE \/ i > HEADER_SIZE + BLOCK_COUNT * BLOCK_SIZE
        THEN data[i]
        ELSE LET w == ks[((i - 1 - HEADER_SIZE) \div 2) + 1].hi
             IN IF (i - 1 - HEADER_SIZE) % 2 = 0
                THEN BitXor(data[i], w % 256)
                ELSE BitXor(data[i], w \div 256)]

\* The 24 orderings of the four blocks; entry sv lists, for each block of
\* the output, the block of the input that is copied there.
BLOCK_POSITION ==
  << <<0, 1, 2, 3>>, <<0, 1, 3, 2>>, <<0, 2, 1, 3>>, <<0, 3, 1, 2>>,
     <<0, 2, 3, 1>>, <<0, 3, 2, 1>>, <<1, 0, 2, 3>>, <<1, 0, 3, 2>>,
     <<2, 0, 1, 3>>, <<3, 0, 1, 2>>, <<2, 0, 3, 1>>, <<3, 0, 2, 1>>,
     <<1, 2, 0, 3>>, <<1, 3, 0, 2>>, <<2, 1, 0, 3>>, <<3, 1, 0, 2>>,
     <<2, 3, 0, 1>>, <<3, 2, 0, 1>>, <<1, 2, 3, 0>>, <<1, 3, 2, 0>>,
     <<2, 1, 3, 0>>, <<3, 1, 2, 0>>, <<2, 3, 1, 0>>, <<3, 2, 1, 0>> >>

\* entry sv is the index of the ordering that undoes ordering sv
BLOCK_POSITION_INVERT ==
  << 0, 1, 2, 4, 3, 5, 6, 7, 12, 18, 13, 19,
     8, 10, 14, 20, 16, 22, 9, 11, 15, 21, 17, 23 >>

\* ((seed >> 13) & 31) % 24
block_index(seed) == (((seed.lo \div 8192) + 8 * (seed.hi % 4)) % 32) % 24

shuffle(data, sv) ==
  [i \in 1..Len(data) |->
     IF i <= HEADER_SIZE \/ i > HEADER_SIZE + BLOCK_COUNT * BLOCK_SIZE
     THEN data[i]
     ELSE LET b == (i - 1 - HEADER_SIZE) \div BLOCK_SIZE
              r == (i - 1 - HEADER_SIZE) % BLOCK_SIZE
          IN data[HEADER_SIZE + BLOCK_SIZE * BLOCK_POSITION[sv + 1][b + 1] + r + 1]]

\* poke_crypto::decrypt::<PKX_SIZE, BLOCK_SIZE>(ekx, seed); ok is FALSE when
\* the permutation lookup would index outside the table (a panic)
decrypt(ekx, seed) ==
  LET sv == block_index(seed)
  IN IF sv + 1 \in DOMAIN BLOCK_POSITION
     THEN [ok |-> TRUE, data |-> shuffle(crypt(ekx, seed), sv)]
     ELSE [ok |-> FALSE, data |-> <<>>]

\* the inverse procedure: blocks into shuffled order, then the same keystream
encrypt(pkx, seed) ==
  crypt(shuffle(pkx, BLOCK_POSITION_INVERT[block_index(seed) + 1]), seed)

TEST_EKX ==
  << 128, 92, 134, 2, 0, 0, 214, 65, 32, 14, 86, 79, 170, 241, 244, 47,
     165, 158, 204, 254, 139, 242, 50, 32, 81, 209, 153, 221, 66, 210, 85, 229,
     5, 31, 133, 42, 98, 226, 42, 20, 90, 33, 150, 219, 118, 46, 214, 78,
     114, 160, 114, 8, 160, 43, 89, 53, 249, 86, 186, 198, 146, 85, 12, 1,
     249, 43, 219, 88, 189, 132, 90, 201, 148, 119, 150, 114, 29, 91, 19, 209,
     138, 123, 126, 7, 147, 236, 226, 129, 8, 75, 19, 250, 218, 95, 74, 108,
     10, 203, 80, 144, 185, 72, 55, 153, 104, 155, 81, 233, 231, 27, 254, 128,
     203, 86, 173, 35, 184, 86, 80, 96, 71, 244, 89, 39, 238, 73, 179, 118,
     203, 167, 239, 119, 231, 89, 219, 216, 233, 30, 78, 233, 245, 169, 243, 183,
     119, 147, 124, 69, 134, 94, 239, 65, 63, 13, 177, 182, 102, 242, 216, 134,
     152, 100, 242, 242, 127, 75, 134, 246, 70, 218, 68, 127, 236, 117, 52, 212,
     205, 88, 75, 122, 51, 33, 62, 223, 104, 177, 233, 189, 85, 17, 145, 40,
     83, 110, 251, 90, 193, 207, 56, 114, 236, 4, 209, 172, 225, 140, 90, 81,
     48, 180, 139, 164, 236, 69, 188, 67, 109, 20, 184, 142, 147, 128, 145, 30,
     145, 202, 20, 183, 223, 242, 179, 38 >>

should_decrypt_result ==
  << 128, 92, 134, 2, 0, 0, 214, 65, 132, 0, 24, 1, 86, 246, 66, 200,
     64, 66, 15, 0, 150, 4, 0, 0, 35, 15, 55, 49, 3, 4, 252, 0,
     6, 252, 0, 0, 0, 0, 0, 0, 0, 0, 63, 49, 0, 0, 0, 0,
     0, 0, 0, 0, 0, 0, 0, 0, 0, 0, 0, 0, 0, 0, 0, 0,
     65, 0, 100, 0, 97, 0, 109, 0, 97, 0, 110, 0, 116, 0, 32, 0,
     54, 0, 73, 0, 86, 0, 115, 0, 0, 0, 144, 0, 0, 0, 0, 0,
     0, 0, 16, 0, 0, 0, 3, 0, 0, 0, 0, 0, 0, 0, 0, 0,
     0, 0, 0, 0, 255, 255, 255, 191, 69, 0, 86, 0, 146, 224, 0, 0,
     0, 0, 0, 0, 0, 0, 0, 0, 0, 0, 0, 0, 0, 0, 0, 0,
     0, 0, 0, 1, 44, 49, 10, 18, 44, 49, 16, 49, 0, 49, 0, 0,
     0, 0, 70, 0, 3, 4, 0, 0, 9, 0, 0, 0, 0, 0, 0, 0,
     68, 0, 105, 0, 116, 0, 116, 0, 111, 0, 32, 0, 105, 0, 115, 0,
     32, 0, 146, 224, 0, 0, 0, 0, 0, 0, 70, 3, 7, 15, 151, 0,
     2, 0, 0, 0, 12, 12, 25, 0, 0, 0, 148, 0, 11, 30, 0, 24,
     18, 10, 1, 3, 0, 0, 0, 0 >>

(***************************************************************************)
(* Pk6::new and the Reader over the decoded entity.                        *)
(***************************************************************************)
\* faulty variant: the seed read most significant byte first
seed_of_be(data) ==
  LET r == try_into_4(SubSeq(data, 1, 4))
  IN IF r.ok
     THEN [ok |-> TRUE,
           val |-> U32(r.val[2] + 256 * r.val[1], r.val[4] + 256 * r.val[3])]
     ELSE [ok |-> FALSE, val |-> U32(0, 0)]

\* faulty variant: the seed slice one byte short, data[0..3]
seed_of_3_bytes(data) ==
  LET r == try_into_4(SubSeq(data, 1, 3))
  IN IF r.ok THEN [ok |-> TRUE, val |-> from_le_bytes(r.val)]
     ELSE [ok |-> FALSE, val |-> U32(0, 0)]

\* faulty variant: the seed kept in one cell shared by all decodes, so that a decode
\* under way elsewhere supplies it
seed_of_shared(data) ==
  IF \E c \in DOMAIN st : st[c] = "seeded"
  THEN [ok |-> TRUE, val |-> new_seed[CHOOSE c \in DOMAIN st : st[c] = "seeded"]]
  ELSE [ok |-> TRUE, val |-> from_le_bytes(SubSeq(data, 1, 4))]

\* let seed_bytes: [u8; 4] = data[0..4].try_into().unwrap();
\* let seed = u32::from_le_bytes(seed_bytes);      ok is FALSE on a panic
seed_of(data) ==
  LET r == try_into_4(SubSeq(data, 1, 4))
  IN IF r.ok THEN [ok |-> TRUE, val |-> from_le_bytes(r.val)]
     ELSE [ok |-> FALSE, val |-> U32(0, 0)]

\* Self { data: poke_crypto::decrypt::<STORED_SIZE, BLOCK_SIZE>(data, seed) }
Pk6_new(data) ==
  LET s == seed_of(data)
  IN IF s.ok THEN decrypt(data, s.val) ELSE [ok |-> FALSE, data |-> <<>>]

\* Pk6Data::default(): all zero bytes
Pk6Data_default == [i \in 1..STORED_SIZE |-> 0]

get_slice(self) == self.data

\* Reader: an unsigned integer of the given width at the given offset,
\* little-endian; the type's default (zero) when the slice is too short
in_bounds(self, o, w) == o + w <= Len(get_slice(self))

default_read_u8(self, o) ==
  IF in_bounds(self, o, 1) THEN At(get_slice(self), o) ELSE 0

default_read_u16(self, o) ==
  IF in_bounds(self, o, 2)
  THEN At(get_slice(self), o) + 256 * At(get_slice(self), o + 1)
  ELSE 0

default_read_u32(self, o) ==
  IF in_bounds(self, o, 4)
  THEN U32(At(get_slice(self), o + 2) + 256 * At(get_slice(self), o + 3),
           At(get_slice(self), o) + 256 * At(get_slice(self), o + 1))
  ELSE U32(0, 0)

default_read_le_u16(self, o) == default_read_u16(self, o)

default_read_le_u32(self, o) == default_read_u32(self, o)

(***************************************************************************)
(* Enumerated field types: a raw id converts to the variant of that        *)
(* discriminant.                                                           *)
(***************************************************************************)
Variant(enum, id) == [enum |-> enum, id |-> id]

Stats(hp, atk, def, spa, spd, spe) ==
  [hp |-> hp, atk |-> atk, def |-> def, spa |-> spa, spd |-> spd, spe |-> spe]

Ditto == Variant("Species", 132)
Adamant == Variant("Nature", 3)
Imposter == Variant("Ability", 150)
Hidden == Variant("AbilityNumber", 4)

HiddenPowerTable ==
  << "Fighting", "Flying", "Poison", "Ground", "Rock", "Bug", "Ghost", "Steel",
     "Fire", "Water", "Grass", "Electric", "Psychic", "Ice", "Dragon", "Dark" >>

(***************************************************************************)
(* impl Pkx for Pk6: the primitive accessors.                              *)
(***************************************************************************)
\* faulty variant: the constant read from the checksum word at offset 4
encryption_constant_at_4(self) == default_read_le_u32(self, 4)

encryption_constant(self) == default_read_le_u32(self, 0)

species(self) == Variant("Species", default_read_le_u16(self, 8))

tid(self) == default_read_le_u16(self, 12)

sid(self) == default_read_le_u16(self, 14)

ability(self) == Variant("Ability", default_read_u8(self, 20))

ability_number(self) == Variant("AbilityNumber", default_read_u8(self, 21))

\* faulty variant: the personality value read most significant byte first
pid_be(self) ==
  U32(At(get_slice(self), 25) + 256 * At(get_slice(self), 24),
      At(get_slice(self), 27) + 256 * At(get_slice(self), 26))

pid(self) == default_read_le_u32(self, 24)

\* faulty variant: the nature read from the neighbouring byte at 0x1D
nature_at_1D(self) == Variant("Nature", default_read_u8(self, 29))

nature(self) == Variant("Nature", default_read_u8(self, 28))

gender(self) == Variant("Gender", (default_read_u8(self, 29) \div 2) % 4)

\* faulty variant: the effort values read in the order hp, atk, def, spe, spa, spd
evs_speed_first(self) ==
  Stats(default_read_u8(self, 30), default_read_u8(self, 31),
        default_read_u8(self, 32), default_read_u8(self, 34),
        default_read_u8(self, 35), default_read_u8(self, 33))

evs(self) ==
  Stats(default_read_u8(self, 30), default_read_u8(self, 31),
        default_read_u8(self, 32), default_read_u8(self, 33),
        default_read_u8(self, 34), default_read_u8(self, 35))

move1(self) == Variant("Move", default_read_u16(self, 90))

move2(self) == Variant("Move", default_read_u16(self, 92))

move3(self) == Variant("Move", default_read_u16(self, 94))

move4(self) == Variant("Move", default_read_u16(self, 96))

\* faulty variant: the packed word read four bytes early, at 0x70
iv32_at_70(self) == default_read_le_u32(self, 112)

\* faulty variant: the packed word read most significant byte first
iv32_be(self) ==
  LET w == default_read_le_u32(self, 116)
  IN U32((w.lo % 256) * 256 + (w.lo \div 256),
         (w.hi % 256) * 256 + (w.hi \div 256))

iv32(self) == default_read_le_u32(self, 116)

ht_friendship(self) == default_read_u32(self, 162)

ot_friendship(self) == default_read_u32(self, 202)

language(self) == Variant("Language", default_read_u8(self, 227))

(***************************************************************************)
(* Pkx: the derived values, shared by every generation.                    *)
(***************************************************************************)
\* bit k (0..31) of a u32
Bit32(w, k) == IF k < 16 THEN Bit(w.lo, k) ELSE Bit(w.hi, k - 16)

\* (w >> from) & 31
shr_and_31(w, from) ==
  Bit32(w, from) + 2 * Bit32(w, from + 1) + 4 * Bit32(w, from + 2)
    + 8 * Bit32(w, from + 3) + 16 * Bit32(w, from + 4)

ivs(self) ==
  LET w == iv32(self)
  IN Stats(shr_and_31(w, 0), shr_and_31(w, 5), shr_and_31(w, 10),
           shr_and_31(w, 15), shr_and_31(w, 20), shr_and_31(w, 25))

tsv(self) == BitXor(tid(self), sid(self)) \div 16

psv(self) == BitXor(pid(self).hi, pid(self).lo) \div 16

is_shiny(self) == tsv(self) = psv(self)

hidden_power_sum(iv) ==
  (iv.hp % 2) + 2 * (iv.atk % 2) + 4 * (iv.def % 2)
    + 8 * (iv.spe % 2) + 16 * (iv.spa % 2) + 32 * (iv.spd % 2)

hidden_power_index(iv) == (hidden_power_sum(iv) * 15) \div 63

\* ok is FALSE when the index would fall outside the type table
hidden_power(self) ==
  LET idx == hidden_power_index(ivs(self))
  IN IF idx + 1 \in DOMAIN HiddenPowerTable
     THEN [ok |-> TRUE, val |-> HiddenPowerTable[idx + 1]]
     ELSE [ok |-> FALSE, val |-> "panic"]

\* Pk6 has no nature-override field
minted_nature(self) == nature(self)

(***************************************************************************)
(* The records that are decoded.  A generated record is the encryption of  *)
(* a plaintext built from a seed, a body fill pattern and chosen field     *)
(* values; the fixture is TEST_EKX; the default record is all zero.        *)
(***************************************************************************)
Input(kind, sv, var, pat, t, s, v, iv, flags, nat) ==
  [kind |-> kind, sv |-> sv, var |-> var, pat |-> pat, tid |-> t, sid |-> s,
   pid |-> v, iv |-> iv, flags |-> flags, nat |-> nat]

AllIV(n) == Stats(n, n, n, n, n, n)

\* field k (0..5, in the order hp, atk, def, spa, spd, spe) of a Stat Block
StatAt(iv, k) ==
  CASE k = 0 -> iv.hp [] k = 1 -> iv.atk [] k = 2 -> iv.def
    [] k = 3 -> iv.spa [] k = 4 -> iv.spd [] OTHER -> iv.spe

OneIV(k, v, bg) ==
  Stats(IF k = 0 THEN v ELSE bg, IF k = 1 THEN v ELSE bg, IF k = 2 THEN v ELSE bg,
        IF k = 3 THEN v ELSE bg, IF k = 4 THEN v ELSE bg, IF k = 5 THEN v ELSE bg)

FixtureInput == Input("fixture", 18, 0, 0, 0, 0, U32(0, 0), AllIV(0), 0, 0)

DefaultInput == Input("default", 0, 0, 0, 0, 0, U32(0, 0), AllIV(0), 0, 0)

\* the seed with block selector sv (bits 13..17); var changes the other bits,
\* and (18, 0) is the fixture's seed 0x02865C80
SeedFor(sv, var) ==
  U32((sv \div 8) + 4 * ((161 + var * 3001) % 16384),
      (sv % 8) * 8192 + ((7296 + var * 4951) % 8192))

\* every block selector, with the fixture's field values
SeedInputs ==
  { Input("gen", sv, var, pat, 63062, 51266, U32(12599, 3875), AllIV(31), 2,
          (sv * 11 + 3 * var + pat) % 256) :
      sv \in 0..31, var \in 0..(MaxSeedVar - 1), pat \in 0..(MaxPattern - 1) }

FlipMasks == {0, 1, 8, 16, 32768}

\* the fixture's trainer id, secret id and personality value with at most
\* two of the four 16-bit halves changed in one bit
ShinyInputs ==
  { Input("gen", 18, 0, 0, BitXor(63062, m[1]), BitXor(51266, m[2]),
          U32(BitXor(12599, m[3]), BitXor(3875, m[4])), AllIV(31), 2, 3) :
      m \in { q \in [1..4 -> FlipMasks] :
                Cardinality({ j \in 1..4 : q[j] # 0 }) <= 2 } }

\* one individual value set apart from the five others, under every flag pair
IVInputs ==
  { Input("gen", 18, 0, 0, 63062, 51266, U32(12599, 3875),
          OneIV(k, v, bg), fl, 3) :
      k \in 0..5, v \in {1, 30}, bg \in {0, 31}, fl \in 0..3 }

Inputs == {FixtureInput, DefaultInput} \cup SeedInputs \cup ShinyInputs \cup IVInputs

\* the records decoded side by side
ParInputs ==
  { FixtureInput,
    Input("gen", 9, 0, 0, 63062, 51266, U32(12599, 3875), AllIV(31), 2, 3) }

\* the records decoded by a caller on its own
SoloInputs == ParInputs \cup {DefaultInput}

\* the plaintext of a generated record
Plain(i) ==
  LET sd == SeedFor(i.sv, i.var)
      iv == i.iv
  IN [n \in 1..STORED_SIZE |->
        LET o == n - 1
        IN CASE o = 0 -> sd.lo % 256
             [] o = 1 -> sd.lo \div 256
             [] o = 2 -> sd.hi % 256
             [] o = 3 -> sd.hi \div 256
             [] o = 12 -> i.tid % 256
             [] o = 13 -> i.tid \div 256
             [] o = 14 -> i.sid % 256
             [] o = 15 -> i.sid \div 256
             [] o = 24 -> i.pid.lo % 256
             [] o = 25 -> i.pid.lo \div 256
             [] o = 26 -> i.pid.hi % 256
             [] o = 27 -> i.pid.hi \div 256
             [] o = 28 -> i.nat
             [] o = 116 -> (iv.hp + 32 * iv.atk) % 256
             [] o = 117 -> ((iv.atk \div 8) + 4 * iv.def + 128 * iv.spa) % 256
             [] o = 118 -> ((iv.spa \div 2) + 16 * iv.spd) % 256
             [] o = 119 -> ((iv.spd \div 16) + 2 * iv.spe + 64 * i.flags) % 256
             [] OTHER -> (o * (2 * i.pat + 3) + 11 * i.pat + 5) % 256]

RawOf(i) ==
  CASE i.kind = "fixture" -> TEST_EKX
    [] i.kind = "default" -> Pk6Data_default
    [] OTHER -> encrypt(Plain(i), SeedFor(i.sv, i.var))

(***************************************************************************)
(* The state machine.                                                      *)
(***************************************************************************)
vars == <<inp, raw, new_seed, pk, st, ret, watch, first>>

Callers == DOMAIN st

NoCall == [name |-> "none", val |-> 0]

AccessorNames ==
  { "encryption_constant", "species", "tid", "sid", "ability", "ability_number",
    "pid", "nature", "gender", "evs", "move1", "move2", "move3", "move4",
    "iv32", "ht_friendship", "ot_friendship", "language",
    "ivs", "tsv", "psv", "is_shiny", "hidden_power", "minted_nature" }

InitWith(callers, inputs, watched) ==
  /\ inp \in [callers -> inputs]
  /\ raw = [c \in callers |-> RawOf(inp[c])]
  /\ new_seed = [c \in callers |-> U32(0, 0)]
  /\ pk = [c \in callers |-> [data |-> <<>>]]
  /\ st = [c \in callers |-> "raw"]
  /\ ret = [c \in callers |-> NoCall]
  /\ watch \in watched
  /\ first = [c \in callers |-> NoCall]

\* one caller, every record
Init == InitWith({1}, Inputs, {"none"})

ParWatched == {"hidden_power"}

\* two callers side by side, or one caller with any one accessor watched
InitPar ==
  \/ InitWith({1, 2}, ParInputs, ParWatched)
  \/ InitWith({1}, SoloInputs, AccessorNames)

(***************************************************************************)
(* Pk6::new, in its two statements, and From<Pk6Data>.                     *)
(***************************************************************************)
NewSeed(c) ==
  /\ st[c] = "raw"
  /\ inp[c].kind # "default"
  /\ LET s == seed_of(raw[c])
     IN /\ new_seed' = [new_seed EXCEPT ![c] = s.val]
        /\ st' = [st EXCEPT ![c] = IF s.ok THEN "seeded" ELSE "panicked"]
  /\ UNCHANGED <<inp, raw, pk, ret, watch, first>>

NewDecrypt(c) ==
  /\ st[c] = "seeded"
  /\ LET r == decrypt(raw[c], new_seed[c])
     IN /\ pk' = [pk EXCEPT ![c] = [data |-> r.data]]
        /\ st' = [st EXCEPT ![c] = IF r.ok THEN "decoded" ELSE "panicked"]
  /\ UNCHANGED <<inp, raw, new_seed, ret, watch, first>>

\* impl From<Pk6Data> for Pk6: Self::new(data.0), here on Pk6Data::default()
From(c) ==
  /\ st[c] = "raw"
  /\ inp[c].kind = "default"
  /\ LET s == seed_of(raw[c])
         r == Pk6_new(raw[c])
     IN /\ new_seed' = [new_seed EXCEPT ![c] = s.val]
        /\ pk' = [pk EXCEPT ![c] = [data |-> r.data]]
        /\ st' = [st EXCEPT ![c] = IF r.ok THEN "decoded" ELSE "panicked"]
  /\ UNCHANGED <<inp, raw, ret, watch, first>>

(***************************************************************************)
(* Accessor calls on a decoded entity: read-only, the value goes to the    *)
(* caller.                                                                 *)
(***************************************************************************)
Returns(c, name, val) ==
  /\ st[c] = "decoded"
  /\ ret' = [ret EXCEPT ![c] = [name |-> name, val |-> val]]
  /\ first' = IF name = watch /\ first[c].name = "none"
              THEN [first EXCEPT ![c] = [name |-> name, val |-> val]]
              ELSE first
  /\ UNCHANGED <<inp, raw, new_seed, pk, st, watch>>

CallEncryptionConstant(c) == Returns(c, "encryption_constant", encryption_constant(pk[c]))
CallSpecies(c) == Returns(c, "species", species(pk[c]))
CallTid(c) == Returns(c, "tid", tid(pk[c]))
CallSid(c) == Returns(c, "sid", sid(pk[c]))
CallAbility(c) == Returns(c, "ability", ability(pk[c]))
CallAbilityNumber(c) == Returns(c, "ability_number", ability_number(pk[c]))
CallPid(c) == Returns(c, "pid", pid(pk[c]))
CallNature(c) == Returns(c, "nature", nature(pk[c]))
CallGender(c) == Returns(c, "gender", gender(pk[c]))
CallEvs(c) == Returns(c, "evs", evs(pk[c]))
CallMove1(c) == Returns(c, "move1", move1(pk[c]))
CallMove2(c) == Returns(c, "move2", move2(pk[c]))
CallMove3(c) == Returns(c, "move3", move3(pk[c]))
CallMove4(c) == Returns(c, "move4", move4(pk[c]))
CallIv32(c) == Returns(c, "iv32", iv32(pk[c]))
CallHtFriendship(c) == Returns(c, "ht_friendship", ht_friendship(pk[c]))
CallOtFriendship(c) == Returns(c, "ot_friendship", ot_friendship(pk[c]))
CallLanguage(c) == Returns(c, "language", language(pk[c]))
CallIvs(c) == Returns(c, "ivs", ivs(pk[c]))
CallTsv(c) == Returns(c, "tsv", tsv(pk[c]))
CallPsv(c) == Returns(c, "psv", psv(pk[c]))
CallIsShiny(c) == Returns(c, "is_shiny", is_shiny(pk[c]))
CallMintedNature(c) == Returns(c, "minted_nature", minted_nature(pk[c]))

\* hidden_power() fails instead of returning when the type lookup fails
CallHiddenPower(c) ==
  LET r == hidden_power(pk[c])
  IN IF r.ok THEN Returns(c, "hidden_power", r.val)
     ELSE /\ st[c] = "decoded"
          /\ st' = [st EXCEPT ![c] = "hp_panicked"]
          /\ UNCHANGED <<inp, raw, new_seed, pk, ret, watch, first>>

Next ==
  \/ \E c \in Callers : NewSeed(c)
  \/ \E c \in Callers : NewDecrypt(c)
  \/ \E c \in Callers : From(c)
  \/ \E c \in Callers : CallEncryptionConstant(c)
  \/ \E c \in Callers : CallSpecies(c)
  \/ \E c \in Callers : CallTid(c)
  \/ \E c \in Callers : CallSid(c)
  \/ \E c \in Callers : CallAbility(c)
  \/ \E c \in Callers : CallAbilityNumber(c)
  \/ \E c \in Callers : CallPid(c)
  \/ \E c \in Callers : CallNature(c)
  \/ \E c \in Callers : CallGender(c)
  \/ \E c \in Callers : CallEvs(c)
  \/ \E c \in Callers : CallMove1(c)
  \/ \E c \in Callers : CallMove2(c)
  \/ \E c \in Callers : CallMove3(c)
  \/ \E c \in Callers : CallMove4(c)
  \/ \E c \in Callers : CallIv32(c)
  \/ \E c \in Callers : CallHtFriendship(c)
  \/ \E c \in Callers : CallOtFriendship(c)
  \/ \E c \in Callers : CallLanguage(c)
  \/ \E c \in Callers : CallIvs(c)
  \/ \E c \in Callers : CallTsv(c)
  \/ \E c \in Callers : CallPsv(c)
  \/ \E c \in Callers : CallIsShiny(c)
  \/ \E c \in Callers : CallHiddenPower(c)
  \/ \E c \in Callers : CallMintedNature(c)

Spec == Init /\ [][Next]_vars

SpecPar == InitPar /\ [][Next]_vars

(***************************************************************************)
(* Properties.                                                             *)
(***************************************************************************)
Decoded(c) == st[c] = "decoded"

\* the entity whose buffer differs from self's in the byte at offset o only
WithByte(self, o, b) == [data |-> [self.data EXCEPT ![o + 1] = b]]

\* (seed >> 13) & 31, before the reduction modulo 24
Selector(s) == ((s.lo \div 8192) + 8 * (s.hi % 4)) % 32

\* C1: round trip.  A record that is the encryption of a plaintext P (the
\* body XORed with the keystream of P's seed, its blocks in the order the
\* seed selects) decodes, by Pk6::new, to exactly P: every byte of every
\* block is back at its original position, for every permutation index.
RoundTrip ==
  \A c \in Callers :
    (Decoded(c) /\ inp[c].kind = "gen") =>
      /\ pk[c].data = Plain(inp[c])
      /\ new_seed[c] = SeedFor(inp[c].sv, inp[c].var)

\* a record whose blocks were shuffled by an ordering that is not its own
\* inverse has been decoded back to its plaintext
RoundTripWitness ==
  \E c \in Callers :
    /\ Decoded(c) /\ inp[c].kind = "gen"
    /\ BLOCK_POSITION_INVERT[block_index(new_seed[c]) + 1] # block_index(new_seed[c])
    /\ Selector(new_seed[c]) >= 24
    /\ raw[c] # pk[c].data
    /\ pk[c].data = Plain(inp[c])

\* C2: the fixture.  Pk6::new(TEST_EKX) is the plaintext asserted in
\* should_decrypt, and the accessors over it report Ditto, trainer id 63062,
\* secret id 51266, personality value 0x31370F23, Adamant, Imposter in the
\* Hidden slot, individual values all 31, effort values {252,0,6,252,0,0} in
\* the order hp, atk, def, spa, spd, spe, and hidden power Dark.
FixtureDecodes ==
  \A c \in Callers :
    (Decoded(c) /\ inp[c].kind = "fixture") =>
      /\ raw[c] = TEST_EKX
      /\ new_seed[c] = U32(646, 23680)
      /\ pk[c].data = should_decrypt_result
      /\ species(pk[c]) = Ditto
      /\ tid(pk[c]) = 63062
      /\ sid(pk[c]) = 51266
      /\ pid(pk[c]) = U32(12599, 3875)
      /\ nature(pk[c]) = Adamant
      /\ ability(pk[c]) = Imposter
      /\ ability_number(pk[c]) = Hidden
      /\ ivs(pk[c]) = AllIV(31)
      /\ evs(pk[c]) = Stats(252, 0, 6, 252, 0, 0)
      /\ hidden_power(pk[c]) = [ok |-> TRUE, val |-> "Dark"]
      /\ (ret[c].name = "evs" => ret[c].val = Stats(252, 0, 6, 252, 0, 0))
      /\ (ret[c].name = "species" => ret[c].val = Ditto)

FixtureWitness ==
  \E c \in Callers :
    /\ Decoded(c) /\ inp[c].kind = "fixture"
    /\ pk[c].data = should_decrypt_result
    /\ ret[c].name = "evs"
    /\ ret[c].val = Stats(252, 0, 6, 252, 0, 0)

\* C3: the header is left unchanged.  The first 8 bytes of the decoded
\* buffer are those of the raw record, and encryption_constant() is the seed
\* that Pk6::new read from raw bytes 0..4, little-endian.
HeaderUnchanged ==
  \A c \in Callers :
    Decoded(c) =>
      /\ \A n \in 1..8 : pk[c].data[n] = raw[c][n]
      /\ new_seed[c] = U32(raw[c][3] + 256 * raw[c][4], raw[c][1] + 256 * raw[c][2])
      /\ encryption_constant(pk[c]) = new_seed[c]
      /\ (ret[c].name = "encryption_constant" => ret[c].val = new_seed[c])

HeaderWitness ==
  \E c \in Callers :
    /\ Decoded(c)
    /\ ret[c].name = "encryption_constant"
    /\ ret[c].val = new_seed[c]
    /\ new_seed[c] # U32(0, 0)
    /\ new_seed[c] # U32(raw[c][5] + 256 * raw[c][6], raw[c][7] + 256 * raw[c][8])
    /\ \E n \in 9..STORED_SIZE : pk[c].data[n] # raw[c][n]

\* C4: totality.  Pk6::new never fails: the seed extraction succeeds, the
\* permutation index is an entry of the table, and the result has exactly
\* 232 bytes = 8 header bytes + 4 blocks of 56 bytes, whatever the record.
NewIsTotal ==
  \A c \in Callers :
    /\ st[c] # "panicked"
    /\ Len(raw[c]) = 232
    /\ (st[c] \in {"seeded", "decoded"} =>
          /\ block_index(new_seed[c]) \in 0..23
          /\ block_index(new_seed[c]) + 1 \in DOMAIN BLOCK_POSITION)
    /\ (Decoded(c) =>
          /\ Len(pk[c].data) = 232
          /\ Len(pk[c].data) = STORED_SIZE
          /\ STORED_SIZE = HEADER_SIZE + BLOCK_COUNT * BLOCK_SIZE)

\* a record whose selector lies beyond the 24 orderings, and whose checksum
\* bytes were never looked at, has been decoded
NewIsTotalWitness ==
  \E c \in Callers :
    /\ Decoded(c)
    /\ Selector(new_seed[c]) >= 24
    /\ Len(pk[c].data) = 232
    /\ inp[c].pat > 0

\* C5: shiny.  tsv = (T XOR S) >> 4, psv = ((V >> 16) XOR (V & 0xFFFF)) >> 4,
\* shiny iff tsv = psv, which is a matter of bits 4..15 only: changing any of
\* bits 0..3 of T, of S or of either half of V never changes the result.  For
\* the fixture tsv = psv = 993.
ShinyInvariant ==
  \A c \in Callers :
    Decoded(c) =>
      LET d == pk[c].data
          T == d[13] + 256 * d[14]
          S == d[15] + 256 * d[16]
          Vlo == d[25] + 256 * d[26]
          Vhi == d[27] + 256 * d[28]
      IN /\ tsv(pk[c]) = BitXor(T, S) \div 16
         /\ psv(pk[c]) = BitXor(Vhi, Vlo) \div 16
         /\ is_shiny(pk[c]) = (tsv(pk[c]) = psv(pk[c]))
         /\ is_shiny(pk[c]) =
              (\A b \in 4..15 : (Bit(T, b) + Bit(S, b)) % 2 = (Bit(Vhi, b) + Bit(Vlo, b)) % 2)
         /\ (ret[c].name \in {"none", "is_shiny"} =>
               \A o \in {12, 14, 24, 26} : \A m \in 1..15 :
                 is_shiny(WithByte(pk[c], o, BitXor(d[o + 1], m))) = is_shiny(pk[c]))
         /\ (inp[c].kind = "fixture" => tsv(pk[c]) = 993 /\ psv(pk[c]) = 993)
         /\ (inp[c].kind = "gen" =>
               /\ T = inp[c].tid /\ S = inp[c].sid
               /\ Vhi = inp[c].pid.hi /\ Vlo = inp[c].pid.lo
               /\ ((/\ BitXor(T, 63062) < 16 /\ BitXor(S, 51266) < 16
                    /\ BitXor(Vhi, 12599) < 16 /\ BitXor(Vlo, 3875) < 16)
                     => is_shiny(pk[c])))
         /\ (ret[c].name = "is_shiny" => ret[c].val = (tsv(pk[c]) = psv(pk[c])))

\* an entity that differs from the fixture in low bits only was found shiny
ShinyWitness ==
  \E c \in Callers :
    /\ Decoded(c) /\ inp[c].kind = "gen"
    /\ inp[c].tid = 63063
    /\ inp[c].pid.hi = 12607
    /\ ret[c].name = "is_shiny"
    /\ ret[c].val = TRUE

\* C6: unpacking.  With w the u32 at 0x74, ivs() is the six 5-bit fields of
\* w from the low end, in the order hp, atk, def, spa, spd, spe: each lies in
\* 0..31, and bits 30 and 31 of w have no part in them.
IvUnpack ==
  \A c \in Callers :
    Decoded(c) =>
      LET d == pk[c].data
          b0 == d[117]  b1 == d[118]  b2 == d[119]  b3 == d[120]
          iv == ivs(pk[c])
      IN /\ iv32(pk[c]) = U32(b2 + 256 * b3, b0 + 256 * b1)
         /\ iv = Stats(b0 % 32, ((b0 \div 32) + 8 * b1) % 32, (b1 \div 4) % 32,
                       ((b1 \div 128) + 2 * b2) % 32, ((b2 \div 16) + 16 * b3) % 32,
                       (b3 \div 2) % 32)
         /\ \A k \in 0..5 : StatAt(iv, k) \in 0..31
         /\ (ret[c].name \in {"none", "ivs"} =>
               \A fl \in 0..3 : ivs(WithByte(pk[c], 119, (b3 % 64) + 64 * fl)) = iv)
         /\ (inp[c].kind = "gen" => iv = inp[c].iv)
         /\ (ret[c].name = "ivs" => ret[c].val = iv)

\* a word with both flag bits set, and a value that straddles the two
\* halves of the word, has been unpacked
IvUnpackWitness ==
  \E c \in Callers :
    /\ Decoded(c) /\ inp[c].kind = "gen"
    /\ inp[c].flags = 3
    /\ inp[c].iv = OneIV(3, 30, 0)
    /\ ret[c].name = "ivs"
    /\ ret[c].val = Stats(0, 0, 0, 30, 0, 0)

\* C7: hidden power.  S = (hp&1) + 2(atk&1) + 4(def&1) + 8(spe&1) + 16(spa&1)
\* + 32(spd&1) lies in 0..63, floor(15 S / 63) in 0..15, and hidden_power()
\* returns, without failing, an entry of the 16-entry type table that only
\* the lowest bit of each individual value decides; all odd gives Dark.
HiddenPowerTotal ==
  \A c \in Callers :
    /\ st[c] # "hp_panicked"
    /\ Decoded(c) =>
         LET d == pk[c].data
             iv == ivs(pk[c])
             hp == hidden_power(pk[c])
             \* the lowest bits of the six fields, at bits 0, 5, 10, 15, 20, 25
             lhp == d[117] % 2
             latk == (d[117] \div 32) % 2
             ldef == (d[118] \div 4) % 2
             lspa == (d[118] \div 128) % 2
             lspd == (d[119] \div 16) % 2
             lspe == (d[120] \div 2) % 2
             s == lhp + 2 * latk + 4 * ldef + 8 * lspe + 16 * lspa + 32 * lspd
         IN /\ hidden_power_sum(iv) \in 0..63
            /\ hidden_power_sum(iv) = s
            /\ hidden_power_index(iv) \in 0..15
            /\ Len(HiddenPowerTable) = 16
            /\ hp.ok
            /\ \E n \in 1..16 : hp.val = HiddenPowerTable[n]
            /\ hp.val = HiddenPowerTable[((s * 15) \div 63) + 1]
            /\ (s = 63 => hp.val = "Dark" /\ hp.val = HiddenPowerTable[16])
            /\ (inp[c].kind = "gen" /\ inp[c].iv = AllIV(31) => hp.val = "Dark")
            /\ (ret[c].name = "hidden_power" => ret[c].val = hp.val)

\* hidden_power() has returned a type other than the first and the last
HiddenPowerWitness ==
  \E c \in Callers :
    /\ Decoded(c) /\ inp[c].kind = "gen"
    /\ inp[c].iv = OneIV(4, 30, 31)
    /\ ret[c].name = "hidden_power"
    /\ ret[c].val = HiddenPowerTable[8]

\* C8: friendship.  ot_friendship() is the friendship counter at offset
\* 0xCA and ht_friendship() the one at 0xA2, and for the fixture both are 0.
FriendshipCounters ==
  \A c \in Callers :
    Decoded(c) =>
      /\ ot_friendship(pk[c]) = U32(0, pk[c].data[203])
      /\ ht_friendship(pk[c]) = U32(0, pk[c].data[163])
      /\ (inp[c].kind = "fixture" =>
            /\ pk[c].data = should_decrypt_result
            /\ ot_friendship(pk[c]) = U32(0, 0)
            /\ ht_friendship(pk[c]) = U32(0, 0))

\* C9: minted nature.  minted_nature() is nature(), the nature of the byte
\* at 0x1C; no other byte of the buffer has a part in it.
MintedNature ==
  \A c \in Callers :
    Decoded(c) =>
      /\ minted_nature(pk[c]) = nature(pk[c])
      /\ minted_nature(pk[c]) = Variant("Nature", pk[c].data[29])
      /\ (ret[c].name \in {"none", "minted_nature"} =>
            \A o \in (0..(STORED_SIZE - 1)) \ {28} :
              minted_nature(WithByte(pk[c], o, 255 - pk[c].data[o + 1]))
                = minted_nature(pk[c]))
      /\ (inp[c].kind = "gen" => minted_nature(pk[c]) = Variant("Nature", inp[c].nat))
      /\ (ret[c].name = "minted_nature" => ret[c].val = Variant("Nature", pk[c].data[29]))

MintedNatureWitness ==
  \E c \in Callers :
    /\ Decoded(c) /\ inp[c].kind = "gen"
    /\ inp[c].nat = 23
    /\ pk[c].data[30] # pk[c].data[29]
    /\ ret[c].name = "minted_nature"
    /\ ret[c].val = Variant("Nature", 23)

\* what a decode of the record alone yields
Solo(i) ==
  CASE i.kind = "fixture" -> should_decrypt_result
    [] i.kind = "default" -> crypt(Pk6Data_default, U32(0, 0))
    [] OTHER -> Plain(i)

\* C10: determinism and independence.  However the decodes and the accessor
\* calls of independent callers interleave, each entity's buffer is, and
\* stays, what a decode of its record alone yields, equal records give equal
\* buffers, and an accessor called again returns what its first call did.
Deterministic ==
  /\ \A c \in Callers : Decoded(c) => pk[c].data = Solo(inp[c])
  /\ \A c, e \in Callers :
       (Decoded(c) /\ Decoded(e) /\ raw[c] = raw[e]) => pk[c] = pk[e]
  /\ \A c \in Callers :
       (first[c].name # "none" /\ ret[c].name = first[c].name)
         => ret[c].val = first[c].val

\* two entities of different records exist side by side; on one the watched
\* accessor has returned again after another accessor was called on the other
DeterministicWitness ==
  /\ Callers = {1, 2}
  /\ Decoded(1) /\ Decoded(2)
  /\ inp[1].kind = "fixture" /\ inp[2].kind = "gen"
  /\ first[1].name = "hidden_power"
    /\ first[1].val = "Dark"
  /\ ret[1].name = "hidden_power"
  /\ ret[1].val = "Dark"
  /\ ret[2].name = "ot_friendship"
  /\ first[2].name = "hidden_power"
====
